---- MODULE Spec2Model ----
(***************************************************************************)
(* A model of stackhut/commands/run_command.py: RunCmd.run, its nested    *)
(* functions _startup (with gen_id and _make_json_rpc), _shutdown and     *)
(* _run_ext, and the try/except/finally that surrounds them.              *)
(*                                                                         *)
(* Strings whose content matters (ids, method names) are sequences of     *)
(* one-character strings.  A JSON value is a record [t, s, n]: t is its   *)
(* type ("absent" for a key the dict does not hold), s its characters     *)
(* when it is a string and n its value when it is an integer.             *)
(***************************************************************************)
EXTENDS Integers, Sequences, FiniteSets, TLC

\* ------------------------------------------------------------------ bounds
\* longest method name the environment supplies
MaxMethodLen == 3
\* longest batch (req given as a list) the environment supplies
MaxBatch == 2

\* ------------------------------------------------------- module constants
REQ_FIFO == "req.json"
RESP_FIFO == "resp.json"
default_service == <<"D", "e", "f", "a", "u", "l", "t">>
\* barrister.ERR_METHOD_NOT_FOUND, the JSON-RPC reserved code
ERR_METHOD_NOT_FOUND == -32601

\* ------------------------------------------------------------ JSON values
Absent == [t |-> "absent", s |-> <<>>, n |-> 0]
JNull == [t |-> "null", s |-> <<>>, n |-> 0]
JStr(s) == [t |-> "str", s |-> s, n |-> 0]
JInt(n) == [t |-> "int", s |-> <<>>, n |-> n]

DigitChar(d) ==
    CASE d = 0 -> "0" [] d = 1 -> "1" [] d = 2 -> "2" [] d = 3 -> "3"
      [] d = 4 -> "4" [] d = 5 -> "5" [] d = 6 -> "6" [] d = 7 -> "7"
      [] d = 8 -> "8" [] d = 9 -> "9"

RECURSIVE Decimal(_)
Decimal(n) == IF n < 10 THEN <<DigitChar(n)>>
              ELSE Decimal(n \div 10) \o <<DigitChar(n % 10)>>

\* Python's str() of a JSON value that json.loads produced
Str(v) ==
    CASE v.t = "str" -> v.s
      [] v.t = "int" -> IF v.n < 0 THEN <<"-">> \o Decimal(0 - v.n) ELSE Decimal(v.n)
      [] v.t = "null" -> <<"N", "o", "n", "e">>

\* str(uuid.uuid4()): the k-th fresh token of this run
Uuid(k) == <<"u", "u", "i", "d", "-", DigitChar(k)>>

\* s.find(c): the 0-based index of the first c in s, or -1
Find(s, c) ==
    IF \E i \in 1..Len(s) : s[i] = c
    THEN (CHOOSE i \in 1..Len(s) : s[i] = c /\ \A j \in 1..(i - 1) : s[j] # c) - 1
    ELSE -1

\* a variant that draws a fresh id whether or not the key is present
gen_id_AlwaysFresh(val, fresh) == JStr(fresh)

\* a variant that stores an id it finds as it is, without str()
gen_id_NoCoerce(val, fresh) == IF val.t = "absent" THEN JStr(fresh) ELSE val

\* gen_id(d, v), on the value d holds under v; fresh is the uuid it would draw
gen_id(val, fresh) == IF val.t = "absent" THEN JStr(fresh) ELSE JStr(Str(val))

\* a variant that sets the protocol version whether or not one is present
_make_json_rpc_ForceVersion(req, fresh) ==
    LET r1 == [req EXCEPT !.jsonrpc = JStr(<<"2", ".", "0">>),
                          !.id = gen_id(req.id, fresh)]
    IN  CASE req.method.t = "absent" -> [exc |-> "KeyError", val |-> r1]
          [] req.method.t # "str" -> [exc |-> "AttributeError", val |-> r1]
          [] OTHER ->
               [exc |-> "none",
                val |-> IF Find(req.method.s, ".") < 0
                        THEN [r1 EXCEPT !.method =
                                 JStr(default_service \o <<".">> \o req.method.s)]
                        ELSE r1]

\* a variant that tests find('.') <= 0, so that a leading separator counts
\* as none
_make_json_rpc_PrefixAtZero(req, fresh) ==
    LET r1 == [req EXCEPT !.jsonrpc = IF req.jsonrpc.t = "absent"
                                      THEN JStr(<<"2", ".", "0">>) ELSE @,
                          !.id = gen_id(req.id, fresh)]
    IN  CASE req.method.t = "absent" -> [exc |-> "KeyError", val |-> r1]
          [] req.method.t # "str" -> [exc |-> "AttributeError", val |-> r1]
          [] OTHER ->
               [exc |-> "none",
                val |-> IF Find(req.method.s, ".") <= 0
                        THEN [r1 EXCEPT !.method =
                                 JStr(default_service \o <<".">> \o req.method.s)]
                        ELSE r1]

\* _make_json_rpc(req): the request as rewritten, or the exception raised.
\* req['method'] raises KeyError when the key is missing, and .find raises
\* AttributeError on a value that is no string.
_make_json_rpc(req, fresh) ==
    LET r1 == [req EXCEPT !.jsonrpc = IF req.jsonrpc.t = "absent"
                                      THEN JStr(<<"2", ".", "0">>) ELSE @,
                          !.id = gen_id(req.id, fresh)]
    IN  CASE req.method.t = "absent" -> [exc |-> "KeyError", val |-> r1]
          [] req.method.t # "str" -> [exc |-> "AttributeError", val |-> r1]
          [] OTHER ->
               [exc |-> "none",
                val |-> IF Find(req.method.s, ".") < 0
                        THEN [r1 EXCEPT !.method =
                                 JStr(default_service \o <<".">> \o req.method.s)]
                        ELSE r1]

\* a variant that builds the list back to front
RECURSIVE MakeAll_Reversed(_, _)
MakeAll_Reversed(items, k) ==
    IF items = <<>> THEN [exc |-> "none", val |-> <<>>]
    ELSE LET h == _make_json_rpc(Head(items), Uuid(k))
         IN  IF h.exc # "none" THEN [exc |-> h.exc, val |-> <<>>]
             ELSE LET t == MakeAll_Reversed(Tail(items), k + 1)
                  IN  [exc |-> t.exc,
                       val |-> IF t.exc = "none" THEN t.val \o <<h.val>> ELSE <<>>]

\* [_make_json_rpc(req) for req in reqs]: element i draws the uuid after the
\* top-level one; the first exception ends the comprehension
RECURSIVE MakeAll(_, _)
MakeAll(items, k) ==
    IF items = <<>> THEN [exc |-> "none", val |-> <<>>]
    ELSE LET h == _make_json_rpc(Head(items), Uuid(k))
         IN  IF h.exc # "none" THEN [exc |-> h.exc, val |-> <<>>]
             ELSE LET t == MakeAll(Tail(items), k + 1)
                  IN  [exc |-> t.exc,
                       val |-> IF t.exc = "none" THEN <<h.val>> \o t.val ELSE <<>>]

\* lines 62-85 of _startup on the parsed input: the id stored at top level,
\* the requests handed on, or the exception raised
Normalize(inp) ==
    IF inp.kind = "nonobject"
    THEN [exc |-> "TypeError", id |-> Absent, val |-> <<>>]
    ELSE LET tid == gen_id(inp.id, Uuid(0))
         IN  IF inp.shape = "none"
             THEN [exc |-> "ParseError", id |-> tid, val |-> <<>>]
             ELSE LET m == MakeAll(inp.items, 1)
                  IN  [exc |-> m.exc, id |-> tid, val |-> m.val]

\* ------------------------------------------------------------------ state
VARIABLES
    pc,        \* where RunCmd.run stands
    input,     \* what store.get_request() holds for this run
    reqs,      \* the value _startup returns: [shape, items]
    taskId,    \* the id given to store.set_task_id, Absent before
    reqFifo,   \* REQ_FIFO on disk: "absent", "stale" (left by an earlier run), "fresh"
    respFifo,  \* RESP_FIFO on disk, likewise
    logFile,   \* utils.LOGFILE exists
    shim,      \* the stack's shim code is materialized
    dirs,      \* scratch directories under utils.STACKHUT_DIR
    exc,       \* the exception the try body raised, "none" if it raised none
    cleanupExc,\* the exception the finally block raised, "none" if none
    exiting,   \* exit(1) was called in the except clause (SystemExit pending)
    status,    \* "running", or the exit status "0" / "1"
    idx,       \* dispatcher: the request being resolved (1-based)
    resps,     \* dispatcher: the response entries built so far
    call,      \* _run_ext: its arguments [method, params, req_id]
    shimpc,    \* the subprocess of the current nested call
    shimrc,    \* its exit code once it has exited
    reqChan,   \* documents written to REQ_FIFO and not read yet
    respChan,  \* documents written to RESP_FIFO and not read yet
    resp,      \* _run_ext: the parsed response
    rc,        \* _run_ext: p.returncode after p.wait()
    outcome,   \* _run_ext: what it returned or raised
    stored,    \* the store: responses put_response received, in order
    trace      \* the calls made on the collaborators and the filesystem, in order

vars == <<pc, input, reqs, taskId, reqFifo, respFifo, logFile, shim, dirs, exc,
          cleanupExc, exiting, status, idx, resps, call, shimpc, shimrc, reqChan,
          respChan, resp, rc, outcome, stored, trace>>

fsVars == <<reqFifo, respFifo, logFile, shim, dirs>>
extVars == <<call, shimpc, shimrc, reqChan, respChan, resp, rc, outcome>>
dispVars == <<idx, resps>>
endVars == <<exc, cleanupExc, exiting, status>>

\* ------------------------------------------------------------- the inputs
Req(j, i, m, p, x) == [jsonrpc |-> j, id |-> i, method |-> m, params |-> p, extra |-> x]

NoCall == [method |-> <<>>, params |-> "none", req_id |-> <<>>]
NoDoc == [valid |-> FALSE, error |-> Absent, msg |-> Absent, result |-> Absent]
Doc(e, m, r) == [valid |-> TRUE, error |-> e, msg |-> m, result |-> r]
NoOutcome == [kind |-> "none", exc |-> "none", code |-> Absent, msg |-> Absent,
              val |-> Absent]

RECURSIVE SeqsUpTo(_, _)
SeqsUpTo(S, n) ==
    IF n = 0 THEN {<<>>}
    ELSE LET shorter == SeqsUpTo(S, n - 1)
         IN  shorter \cup {Append(q, x) : q \in {r \in shorter : Len(r) = n - 1}, x \in S}

Bad(k) == [kind |-> k, id |-> Absent, shape |-> "none", items |-> <<>>]
Obj(i, sh, its) == [kind |-> "object", id |-> i, shape |-> sh, items |-> its]

\* the request objects of a run: unqualified and qualified methods, with and
\* without an id, and one without a method
GoodItems ==
    { Req(Absent, Absent, JStr(<<"e">>), "p", "absent"),
      Req(JStr(<<"2", ".", "0">>), JInt(7), JStr(<<"F", ".", "b">>), "p", "x") }
RunItems == GoodItems \cup { Req(Absent, Absent, Absent, "p", "absent") }
RunTopIds == { Absent, JStr(<<"t">>) }

RunInputs ==
    { Bad(k) : k \in {"unavailable", "badjson", "nonobject"} }
    \cup { Obj(i, "none", <<>>) : i \in RunTopIds }
    \cup { Obj(i, "single", <<r>>) : i \in RunTopIds, r \in RunItems }
    \cup { Obj(Absent, "list", l) : l \in SeqsUpTo(GoodItems, MaxBatch) }

\* what a subprocess may write to RESP_FIFO: a document that is no JSON, a
\* result, the reserved error, another error
ShimDocs ==
    { NoDoc,
      Doc(Absent, Absent, JStr(<<"h", "i">>)),
      Doc(JInt(ERR_METHOD_NOT_FOUND), JStr(<<"n", "f">>), Absent),
      Doc(JInt(99), JStr(<<"b", "o", "o", "m">>), Absent) }
ExitCodes == {0, 2}

Init ==
    /\ pc = "get_request"
    /\ input \in RunInputs
    /\ reqs = [shape |-> "none", items |-> <<>>]
    /\ taskId = Absent
    /\ reqFifo \in {"absent", "stale"}
    /\ respFifo \in {"absent", "stale"}
    /\ logFile \in BOOLEAN
    /\ shim = FALSE
    /\ dirs = {}
    /\ exc = "none"
    /\ cleanupExc = "none"
    /\ exiting = FALSE
    /\ status = "running"
    /\ idx = 1
    /\ resps = <<>>
    /\ call = NoCall
    /\ shimpc = "none"
    /\ shimrc = 0
    /\ reqChan = <<>>
    /\ respChan = <<>>
    /\ resp = NoDoc
    /\ rc = 0
    /\ outcome = NoOutcome
    /\ stored = <<>>
    /\ trace = <<>>

\* an exception raised inside the try body reaches the except clause
Raise(e) == /\ exc' = e
            /\ pc' = "except"

\* ---------------------------------------------------------------- _startup
\* lines 52-59: shim_server.init, get_request, json.loads
StartupGetRequest ==
    /\ pc = "get_request"
    /\ trace' = Append(trace, "get_request")
    /\ IF input.kind \in {"unavailable", "badjson"}
       THEN Raise("ParseError")
       ELSE /\ pc' = "normalize"
            /\ exc' = exc
    /\ UNCHANGED <<input, reqs, taskId, fsVars, cleanupExc, exiting, status,
                   dispVars, extVars, stored>>

\* a variant that calls set_task_id before gen_id has run on the envelope
StartupNormalize_IdBeforeGen ==
    /\ pc = "normalize"
    /\ LET n == Normalize(input)
       IN  /\ IF n.exc = "TypeError"
              THEN /\ taskId' = taskId
                   /\ trace' = trace
              ELSE /\ taskId' = input.id
                   /\ trace' = Append(trace, "set_task_id")
           /\ IF n.exc # "none"
              THEN /\ Raise(n.exc)
                   /\ reqs' = reqs
              ELSE /\ reqs' = [shape |-> input.shape, items |-> n.val]
                   /\ pc' = "rm_stale"
                   /\ exc' = exc
    /\ UNCHANGED <<input, fsVars, cleanupExc, exiting, status, dispVars, extVars,
                   stored>>

\* lines 62-85: gen_id on the envelope, set_task_id, _make_json_rpc on req
StartupNormalize ==
    /\ pc = "normalize"
    /\ LET n == Normalize(input)
       IN  /\ IF n.exc = "TypeError"
              THEN /\ taskId' = taskId
                   /\ trace' = trace
              ELSE /\ taskId' = n.id
                   /\ trace' = Append(trace, "set_task_id")
           /\ IF n.exc # "none"
              THEN /\ Raise(n.exc)
                   /\ reqs' = reqs
              ELSE /\ reqs' = [shape |-> input.shape, items |-> n.val]
                   /\ pc' = "rm_stale"
                   /\ exc' = exc
    /\ UNCHANGED <<input, fsVars, cleanupExc, exiting, status, dispVars, extVars,
                   stored>>

\* a variant that removes a stale REQ_FIFO and leaves RESP_FIFO as it is
StartupRemoveStale_ReqOnly ==
    /\ pc = "rm_stale"
    /\ reqFifo' = "absent"
    /\ trace' = trace \o (IF reqFifo # "absent" THEN <<"rm_stale_req">> ELSE <<>>)
    /\ pc' = "mkfifo_req"
    /\ UNCHANGED <<input, reqs, taskId, respFifo, logFile, shim, dirs, endVars,
                   dispVars, extVars, stored>>

\* lines 87-88: os.remove of each path that exists
StartupRemoveStale ==
    /\ pc = "rm_stale"
    /\ reqFifo' = "absent"
    /\ respFifo' = "absent"
    /\ trace' = trace \o (IF reqFifo # "absent" THEN <<"rm_stale_req">> ELSE <<>>)
                      \o (IF respFifo # "absent" THEN <<"rm_stale_resp">> ELSE <<>>)
    /\ pc' = "mkfifo_req"
    /\ UNCHANGED <<input, reqs, taskId, logFile, shim, dirs, endVars, dispVars,
                   extVars, stored>>

\* line 89: os.mkfifo(REQ_FIFO), which the filesystem may refuse
StartupMkfifoReq ==
    /\ pc = "mkfifo_req"
    /\ trace' = Append(trace, "mkfifo_req")
    /\ \E ok \in BOOLEAN :
         IF ok THEN /\ reqFifo' = "fresh"
                    /\ pc' = "mkfifo_resp"
                    /\ exc' = exc
               ELSE /\ reqFifo' = reqFifo
                    /\ Raise("OSError")
    /\ UNCHANGED <<input, reqs, taskId, respFifo, logFile, shim, dirs, cleanupExc,
                   exiting, status, dispVars, extVars, stored>>

\* line 90: os.mkfifo(RESP_FIFO)
StartupMkfifoResp ==
    /\ pc = "mkfifo_resp"
    /\ trace' = Append(trace, "mkfifo_resp")
    /\ \E ok \in BOOLEAN :
         IF ok THEN /\ respFifo' = "fresh"
                    /\ pc' = "copy_shim"
                    /\ exc' = exc
               ELSE /\ respFifo' = respFifo
                    /\ Raise("OSError")
    /\ UNCHANGED <<input, reqs, taskId, reqFifo, logFile, shim, dirs, cleanupExc,
                   exiting, status, dispVars, extVars, stored>>

\* lines 92-93: self.stack.copy_shim(), then _startup returns reqs
StartupCopyShim ==
    /\ pc = "copy_shim"
    /\ trace' = Append(trace, "copy_shim")
    /\ \E ok \in BOOLEAN :
         IF ok THEN /\ shim' = TRUE
                    /\ pc' = "dispatch"
                    /\ exc' = exc
               ELSE /\ shim' = shim
                    /\ Raise("ShimError")
    /\ UNCHANGED <<input, reqs, taskId, reqFifo, respFifo, logFile, dirs, cleanupExc,
                   exiting, status, dispVars, extVars, stored>>

\* ---------------------------------------------------------------- _run_ext
Raised(e, c, m) == [kind |-> "raise", exc |-> e, code |-> c, msg |-> m, val |-> Absent]
Returned(v) == [kind |-> "return", exc |-> "none", code |-> Absent, msg |-> Absent,
                val |-> v]

\* "Method or service {} not found".format(method)
NotFoundMsg(method) == JStr(<<"Method or service ">> \o method \o <<" not found">>)

\* a variant that examines the response before the return code
RunExtOutcome_RespFirst(returncode, r, method) ==
    IF r.error.t # "absent"
    THEN IF r.error = JInt(ERR_METHOD_NOT_FOUND)
         THEN Raised("ServerError", r.error, NotFoundMsg(method))
         ELSE IF r.msg.t = "absent"
              THEN Raised("KeyError", Absent, Absent)
              ELSE Raised("ServerError", r.error, r.msg)
    ELSE IF returncode # 0
         THEN Raised("NonZeroExitError", JInt(returncode), Absent)
         ELSE IF r.result.t = "absent"
              THEN Raised("KeyError", Absent, Absent)
              ELSE Returned(r.result)

\* a variant that ignores the return code
RunExtOutcome_NoExitCheck(returncode, r, method) ==
    IF r.error.t # "absent"
    THEN IF r.error = JInt(ERR_METHOD_NOT_FOUND)
         THEN Raised("ServerError", r.error, NotFoundMsg(method))
         ELSE IF r.msg.t = "absent"
              THEN Raised("KeyError", Absent, Absent)
              ELSE Raised("ServerError", r.error, r.msg)
    ELSE IF r.result.t = "absent"
         THEN Raised("KeyError", Absent, Absent)
         ELSE Returned(r.result)

\* a variant that reports every error as method-not-found
RunExtOutcome_AllNotFound(returncode, r, method) ==
    IF returncode # 0
    THEN Raised("NonZeroExitError", JInt(returncode), Absent)
    ELSE IF r.error.t # "absent"
         THEN Raised("ServerError", r.error, NotFoundMsg(method))
         ELSE IF r.result.t = "absent"
              THEN Raised("KeyError", Absent, Absent)
              ELSE Returned(r.result)

\* lines 126-138: what _run_ext raises or returns once the subprocess has been
\* awaited, from its return code and the response object read before
RunExtOutcome(returncode, r, method) ==
    IF returncode # 0
    THEN Raised("NonZeroExitError", JInt(returncode), Absent)
    ELSE IF r.error.t # "absent"
         THEN IF r.error = JInt(ERR_METHOD_NOT_FOUND)
              THEN Raised("ServerError", r.error, NotFoundMsg(method))
              ELSE IF r.msg.t = "absent"
                   THEN Raised("KeyError", Absent, Absent)
                   ELSE Raised("ServerError", r.error, r.msg)
         ELSE IF r.result.t = "absent"
              THEN Raised("KeyError", Absent, Absent)
              ELSE Returned(r.result)

\* a variant that makes the directory without looking whether it exists
RunExtMkdir_NoExistsTest ==
    /\ pc = "ext_mkdir"
    /\ dirs' = dirs \cup {call.req_id}
    /\ trace' = Append(trace, "mkdir")
    /\ pc' = "ext_popen"
    /\ UNCHANGED <<input, reqs, taskId, reqFifo, respFifo, logFile, shim, endVars,
                   dispVars, extVars, stored>>

\* lines 108-109: the scratch directory of req_id, made unless it exists
RunExtMkdir ==
    /\ pc = "ext_mkdir"
    /\ dirs' = dirs \cup {call.req_id}
    /\ trace' = IF call.req_id \in dirs THEN trace ELSE Append(trace, "mkdir")
    /\ pc' = "ext_popen"
    /\ UNCHANGED <<input, reqs, taskId, reqFifo, respFifo, logFile, shim, endVars,
                   dispVars, extVars, stored>>

\* lines 112-115: subprocess.Popen(self.stack.shim_cmd)
RunExtPopen ==
    /\ pc = "ext_popen"
    /\ shimpc' = "launched"
    /\ trace' = Append(trace, "popen")
    /\ pc' = "ext_write"
    /\ UNCHANGED <<input, reqs, taskId, fsVars, endVars, dispVars, call, shimrc,
                   reqChan, respChan, resp, rc, outcome, stored>>

\* a variant whose open of REQ_FIFO does not wait for a reader
RunExtWrite_NoBlock ==
    /\ pc = "ext_write"
    /\ reqChan' = Append(reqChan, call)
    /\ trace' = Append(trace, "write_req")
    /\ pc' = "ext_read"
    /\ UNCHANGED <<input, reqs, taskId, fsVars, endVars, dispVars, call, shimpc,
                   shimrc, respChan, resp, rc, outcome, stored>>

\* a variant that writes the request only once the subprocess has exited, as
\* if p.wait() came before the write
RunExtWrite_AfterExit ==
    /\ pc = "ext_write"
    /\ shimpc = "exited"
    /\ reqChan' = Append(reqChan, call)
    /\ trace' = Append(trace, "write_req")
    /\ pc' = "ext_read"
    /\ UNCHANGED <<input, reqs, taskId, fsVars, endVars, dispVars, call, shimpc,
                   shimrc, respChan, resp, rc, outcome, stored>>

\* lines 117-118: open(REQ_FIFO, "w") returns once a reader holds the other
\* end; the request is written and the file closed
RunExtWrite ==
    /\ pc = "ext_write"
    /\ shimpc = "opened"
    /\ reqChan' = Append(reqChan, call)
    /\ trace' = Append(trace, "write_req")
    /\ pc' = "ext_read"
    /\ UNCHANGED <<input, reqs, taskId, fsVars, endVars, dispVars, call, shimpc,
                   shimrc, respChan, resp, rc, outcome, stored>>

\* lines 120-121: open(RESP_FIFO, "r") and f.read() return once the writer
\* has written and closed; json.loads raises on a document that is no JSON
RunExtRead ==
    /\ pc = "ext_read"
    /\ respChan # <<>>
    /\ respChan' = Tail(respChan)
    /\ trace' = Append(trace, "read_resp")
    /\ IF Head(respChan).valid
       THEN /\ resp' = Head(respChan)
            /\ pc' = "ext_wait"
            /\ exc' = exc
       ELSE /\ resp' = resp
            /\ Raise("ValueError")
    /\ UNCHANGED <<input, reqs, taskId, fsVars, cleanupExc, exiting, status,
                   dispVars, call, shimpc, shimrc, reqChan, rc, outcome, stored>>

\* line 125: p.wait() returns once the subprocess has exited
RunExtWait ==
    /\ pc = "ext_wait"
    /\ shimpc = "exited"
    /\ rc' = shimrc
    /\ trace' = Append(trace, "wait")
    /\ pc' = "ext_decide"
    /\ UNCHANGED <<input, reqs, taskId, fsVars, endVars, dispVars, call, shimpc,
                   shimrc, reqChan, respChan, resp, outcome, stored>>

\* lines 126-138: the return code is examined, then the response
RunExtDecide ==
    /\ pc = "ext_decide"
    /\ outcome' = RunExtOutcome(rc, resp, call.method)
    /\ pc' = "ext_return"
    /\ UNCHANGED <<input, reqs, taskId, fsVars, endVars, dispVars, call, shimpc,
                   shimrc, reqChan, respChan, resp, rc, stored, trace>>

\* ---------------------------------------------------------- the subprocess
\* the shim opens REQ_FIFO for reading
ShimOpenReq ==
    /\ shimpc = "launched"
    /\ shimpc' = "opened"
    /\ UNCHANGED <<pc, input, reqs, taskId, fsVars, endVars, dispVars, call, shimrc,
                   reqChan, respChan, resp, rc, outcome, stored, trace>>

\* the shim reads the request the Bridge wrote
ShimReadReq ==
    /\ shimpc = "opened"
    /\ reqChan # <<>>
    /\ reqChan' = Tail(reqChan)
    /\ shimpc' = "got_req"
    /\ UNCHANGED <<pc, input, reqs, taskId, fsVars, endVars, dispVars, call, shimrc,
                   respChan, resp, rc, outcome, stored, trace>>

\* the shim writes one document to RESP_FIFO and closes it; its open returns
\* once the Bridge holds the reading end
ShimWriteResp ==
    /\ shimpc = "got_req"
    /\ pc = "ext_read"
    /\ \E d \in ShimDocs : respChan' = Append(respChan, d)
    /\ shimpc' = "wrote"
    /\ UNCHANGED <<pc, input, reqs, taskId, fsVars, endVars, dispVars, call, shimrc,
                   reqChan, resp, rc, outcome, stored, trace>>

\* the subprocess exits, at any point of its life, with any code
ShimExit ==
    /\ shimpc \in {"launched", "opened", "got_req", "wrote"}
    /\ shimpc' = "exited"
    /\ \E c \in ExitCodes : shimrc' = c
    /\ UNCHANGED <<pc, input, reqs, taskId, fsVars, endVars, dispVars, call,
                   reqChan, respChan, resp, rc, outcome, stored, trace>>

\* ---------------------------------------------------------- the dispatcher
\* self.server.call(reqs, dict(callback=_run_ext)), line 143: barrister's
\* Server resolves the requests in order; a request is answered by the
\* contract itself or by one call of the callback.
ErrEntry(r, c, m) == [id |-> r.id, kind |-> "error", code |-> c, msg |-> m, val |-> Absent]
ResEntry(r, v) == [id |-> r.id, kind |-> "result", code |-> Absent, msg |-> Absent,
                   val |-> v]

\* the request is refused by the contract: no nested call is made
DispatchLocal ==
    /\ pc = "dispatch"
    /\ idx <= Len(reqs.items)
    /\ resps' = Append(resps, ErrEntry(reqs.items[idx], JInt(-32602),
                                        JStr(<<"contract">>)))
    /\ idx' = idx + 1
    /\ UNCHANGED <<pc, input, reqs, taskId, fsVars, endVars, extVars, stored, trace>>

\* the request resolves to the external implementation: callback(method,
\* params, task id)
DispatchCall ==
    /\ pc = "dispatch"
    /\ idx <= Len(reqs.items)
    /\ call' = [method |-> reqs.items[idx].method.s,
                params |-> reqs.items[idx].params,
                req_id |-> taskId.s]
    /\ pc' = "ext_mkdir"
    /\ UNCHANGED <<input, reqs, taskId, fsVars, endVars, dispVars, shimpc, shimrc,
                   reqChan, respChan, resp, rc, outcome, stored, trace>>

\* what the dispatcher does with the callback's outcome: a ServerError becomes
\* the JSON-RPC error object of that request, a result its result, and any
\* other exception leaves the dispatcher
DispatchHandle ==
    /\ pc = "ext_return"
    /\ IF outcome.kind = "raise" /\ outcome.exc # "ServerError"
       THEN /\ Raise(outcome.exc)
            /\ UNCHANGED dispVars
       ELSE /\ resps' = Append(resps,
                   IF outcome.kind = "raise"
                   THEN ErrEntry(reqs.items[idx], outcome.code, outcome.msg)
                   ELSE ResEntry(reqs.items[idx], outcome.val))
            /\ idx' = idx + 1
            /\ pc' = "dispatch"
            /\ exc' = exc
    /\ UNCHANGED <<input, reqs, taskId, fsVars, cleanupExc, exiting, status, extVars,
                   stored, trace>>

\* every request is answered: server.call returns the aggregate response
DispatchReturn ==
    /\ pc = "dispatch"
    /\ idx > Len(reqs.items)
    /\ pc' = "put_response"
    /\ trace' = Append(trace, "dispatch_return")
    /\ UNCHANGED <<input, reqs, taskId, fsVars, endVars, dispVars, extVars, stored>>

\* --------------------------------------------------------------- _shutdown
\* line 101: self.store.put_response(json.dumps(res)), which the store may fail
ShutdownPutResponse ==
    /\ pc = "put_response"
    /\ trace' = Append(trace, "put_response")
    /\ \E ok \in BOOLEAN :
         IF ok THEN /\ stored' = Append(stored, [shape |-> reqs.shape, entries |-> resps])
                    /\ pc' = "put_file"
                    /\ exc' = exc
               ELSE /\ stored' = stored
                    /\ Raise("StoreError")
    /\ UNCHANGED <<input, reqs, taskId, fsVars, cleanupExc, exiting, status, dispVars,
                   extVars>>

\* line 102: self.store.put_file(utils.LOGFILE)
ShutdownPutFile ==
    /\ pc = "put_file"
    /\ trace' = Append(trace, "put_file")
    /\ \E ok \in BOOLEAN :
         IF ok THEN /\ pc' = "cleanup_del_shim"
                    /\ exc' = exc
               ELSE Raise("StoreError")
    /\ UNCHANGED <<input, reqs, taskId, fsVars, cleanupExc, exiting, status, dispVars,
                   extVars, stored>>

\* ------------------------------------------------- except / finally / return
\* a variant whose except clause hands the failure to _shutdown
HandleException_Shutdown ==
    /\ pc = "except"
    /\ exiting' = TRUE
    /\ pc' = "put_response"
    /\ UNCHANGED <<input, reqs, taskId, fsVars, exc, cleanupExc, status, dispVars,
                   extVars, stored, trace>>

\* lines 145-147: log.exception, then exit(1) raises SystemExit, which the
\* finally block precedes
HandleException ==
    /\ pc = "except"
    /\ exiting' = TRUE
    /\ pc' = "cleanup_del_shim"
    /\ UNCHANGED <<input, reqs, taskId, fsVars, exc, cleanupExc, status, dispVars,
                   extVars, stored, trace>>

\* an exception raised inside the finally block replaces whatever was pending
\* and leaves run: the interpreter ends with status 1
CleanupRaise(e) ==
    /\ cleanupExc' = e
    /\ status' = "1"
    /\ pc' = "terminated"

\* os.remove(path) on a path in state f: the state after, or FileNotFoundError
Remove(f) == IF f = "absent" THEN [exc |-> "FileNotFoundError", after |-> f]
             ELSE [exc |-> "none", after |-> "absent"]

\* line 150: self.stack.del_shim()
CleanupDelShim ==
    /\ pc = "cleanup_del_shim"
    /\ trace' = Append(trace, "del_shim")
    /\ \E ok \in BOOLEAN :
         IF ok THEN /\ shim' = FALSE
                    /\ pc' = "cleanup_rm_req"
                    /\ UNCHANGED <<cleanupExc, status>>
               ELSE /\ shim' = shim
                    /\ CleanupRaise("ShimError")
    /\ UNCHANGED <<input, reqs, taskId, reqFifo, respFifo, logFile, dirs, exc, exiting,
                   dispVars, extVars, stored>>

\* line 151: os.remove(REQ_FIFO)
CleanupRemoveReq ==
    /\ pc = "cleanup_rm_req"
    /\ trace' = Append(trace, "rm_req")
    /\ reqFifo' = Remove(reqFifo).after
    /\ IF Remove(reqFifo).exc = "none"
       THEN /\ pc' = "cleanup_rm_resp"
            /\ UNCHANGED <<cleanupExc, status>>
       ELSE CleanupRaise(Remove(reqFifo).exc)
    /\ UNCHANGED <<input, reqs, taskId, respFifo, logFile, shim, dirs, exc, exiting,
                   dispVars, extVars, stored>>

\* line 152: os.remove(RESP_FIFO)
CleanupRemoveResp ==
    /\ pc = "cleanup_rm_resp"
    /\ trace' = Append(trace, "rm_resp")
    /\ respFifo' = Remove(respFifo).after
    /\ IF Remove(respFifo).exc = "none"
       THEN /\ pc' = "cleanup_rm_log"
            /\ UNCHANGED <<cleanupExc, status>>
       ELSE CleanupRaise(Remove(respFifo).exc)
    /\ UNCHANGED <<input, reqs, taskId, reqFifo, logFile, shim, dirs, exc, exiting,
                   dispVars, extVars, stored>>

\* a variant whose last cleanup step also removes the scratch directories
CleanupRemoveLog_RmDirs ==
    /\ pc = "cleanup_rm_log"
    /\ trace' = Append(trace, "rm_log")
    /\ logFile' = FALSE
    /\ dirs' = {}
    /\ IF logFile
       THEN /\ pc' = "finally_done"
            /\ UNCHANGED <<cleanupExc, status>>
       ELSE CleanupRaise("FileNotFoundError")
    /\ UNCHANGED <<input, reqs, taskId, reqFifo, respFifo, shim, exc, exiting,
                   dispVars, extVars, stored>>

\* line 153: os.remove(utils.LOGFILE)
CleanupRemoveLog ==
    /\ pc = "cleanup_rm_log"
    /\ trace' = Append(trace, "rm_log")
    /\ logFile' = FALSE
    /\ IF logFile
       THEN /\ pc' = "finally_done"
            /\ UNCHANGED <<cleanupExc, status>>
       ELSE CleanupRaise("FileNotFoundError")
    /\ UNCHANGED <<input, reqs, taskId, reqFifo, respFifo, shim, dirs, exc, exiting,
                   dispVars, extVars, stored>>

\* the finally block is through: the pending SystemExit(1) ends the process,
\* or lines 155-157 return 0
Exit ==
    /\ pc = "finally_done"
    /\ status' = IF exiting THEN "1" ELSE "0"
    /\ pc' = "terminated"
    /\ UNCHANGED <<input, reqs, taskId, fsVars, exc, cleanupExc, exiting, dispVars,
                   extVars, stored, trace>>

Next ==
    \/ StartupGetRequest
    \/ StartupNormalize
    \/ StartupRemoveStale
    \/ StartupMkfifoReq
    \/ StartupMkfifoResp
    \/ StartupCopyShim
    \/ DispatchLocal
    \/ DispatchCall
    \/ DispatchHandle
    \/ DispatchReturn
    \/ RunExtMkdir
    \/ RunExtPopen
    \/ RunExtWrite
    \/ RunExtRead
    \/ RunExtWait
    \/ RunExtDecide
    \/ ShimOpenReq
    \/ ShimReadReq
    \/ ShimWriteResp
    \/ ShimExit
    \/ ShutdownPutResponse
    \/ ShutdownPutFile
    \/ HandleException
    \/ CleanupDelShim
    \/ CleanupRemoveReq
    \/ CleanupRemoveResp
    \/ CleanupRemoveLog
    \/ Exit

Spec == Init /\ [][Next]_vars

\* ------------------------------------------------------------------ claims
InTrace(e) == \E i \in 1..Len(trace) : trace[i] = e
Count(e) == Cardinality({i \in 1..Len(trace) : trace[i] = e})
\* every occurrence of b in the trace comes after an occurrence of a
After(a, b) == \A i \in 1..Len(trace) :
                  trace[i] = b => \E j \in 1..(i - 1) : trace[j] = a
Terminated == pc = "terminated"

\* C1: after any run that terminates, with status 0 or 1, neither REQ_FIFO nor
\* RESP_FIFO exists on disk, whatever the two paths held before the run and
\* wherever the run failed.
C1_NoEndpointLeft ==
    Terminated => reqFifo = "absent" /\ respFifo = "absent"

\* C2: cleanup runs on every path out of the try body and attempts del_shim
\* and the three removals; a removal of an absent target, and any other
\* error of the cleanup, does not raise out of it.
C2_CleanupAttemptsAll ==
    Terminated => /\ InTrace("del_shim") /\ InTrace("rm_req")
                  /\ InTrace("rm_resp") /\ InTrace("rm_log")
                  /\ cleanupExc = "none"

\* C3: the run ends with status 0 exactly when the try body (startup,
\* dispatch, shutdown) raised nothing, and then the cleanup is through; on a
\* failure of the try body it ends with status 1, after the cleanup has run.
C3_StatusIffNoFailure ==
    Terminated => /\ (status = "0" <=> exc = "none")
                  /\ status = "0" => (InTrace("rm_log") /\ cleanupExc = "none")
                  /\ status = "1" => InTrace("del_shim")

\* the request cannot be retrieved, is no JSON, or holds no req field
Malformed(inp) == inp.kind # "object" \/ inp.shape = "none"

\* C4: a request that cannot be retrieved, is no JSON or has no req field
\* fails with utils.ParseError and status 1, before any endpoint is made,
\* before the shim is copied and before any subprocess is launched, and
\* nothing is persisted.
C4_MalformedIsParseError ==
    (Malformed(input) /\ pc \notin {"get_request", "normalize"}) =>
        /\ exc = "ParseError"
        /\ ~InTrace("mkfifo_req") /\ ~InTrace("mkfifo_resp")
        /\ ~InTrace("copy_shim") /\ ~InTrace("popen")
        /\ ~InTrace("put_response") /\ stored = <<>>
        /\ Terminated => status = "1"

\* C5: put_response is called at most once, and only after the dispatcher
\* has returned; exactly once in a run that ends with status 0, and never in
\* a run that fails during startup or dispatch; put_file is called only once
\* the response is persisted.
C5_ResponsePersistedOnce ==
    /\ Count("put_response") <= 1
    /\ Len(stored) <= Count("put_response")
    /\ After("dispatch_return", "put_response")
    /\ status = "0" => (Count("put_response") = 1 /\ Len(stored) = 1)
    /\ (exc # "none" /\ ~InTrace("dispatch_return")) => ~InTrace("put_response")
    /\ InTrace("put_file") => Len(stored) = 1
    /\ After("put_response", "put_file")

\* a run that ended with status 0 and one response in the store
C5_Witness ==
    /\ Terminated /\ status = "0"
    /\ Len(stored) = 1 /\ InTrace("put_file")
    /\ Len(stored[1].entries) = 2

Boom == JStr(<<"b", "o", "o", "m">>)

\* _run_ext raises ServerError with the remote code and message as received
C7_RemoteErrorRaised ==
    (/\ pc = "ext_return" /\ rc = 0
     /\ resp.error.t # "absent" /\ resp.error # JInt(ERR_METHOD_NOT_FOUND)
     /\ resp.msg.t # "absent")
    => outcome = Raised("ServerError", resp.error, resp.msg)

\* the ServerError is not fatal: it becomes the error object of that request
C7_Surfaced ==
    (pc = "ext_return" /\ outcome.kind = "raise" /\ outcome.exc = "ServerError")
    => /\ pc' = "dispatch"
       /\ exc' = "none"
       /\ resps' = Append(resps, ErrEntry(reqs.items[idx], outcome.code, outcome.msg))

\* a run in which nothing was raised persists the response and ends with 0
C7_Persisted ==
    (Terminated /\ exc = "none" /\ cleanupExc = "none")
    => /\ status = "0"
       /\ stored = <<[shape |-> reqs.shape, entries |-> resps]>>

\* C7: a subprocess that exits 0 and answers an error whose code is not the
\* reserved one makes _run_ext raise ServerError(code, msg) as received; the
\* error is not fatal, it is the error object of that request in the response,
\* which is persisted, and the run ends with status 0.
C7_RemoteErrorNotFatal ==
    /\ [](C7_RemoteErrorRaised /\ C7_Persisted)
    /\ [][C7_Surfaced]_vars

\* a run that ended with status 0 and persisted the error object 99, boom
C7_Witness ==
    /\ Terminated /\ status = "0" /\ Len(stored) = 1
    /\ \E i \in 1..Len(stored[1].entries) :
          /\ stored[1].entries[i].kind = "error"
          /\ stored[1].entries[i].code = JInt(99)
          /\ stored[1].entries[i].msg = Boom

\* --------------------------------------------- the forwarder's decision alone
FwdCodes == {0, 1, 2}
FwdDocs == { Doc(e, m, r) :
                e \in {Absent, JInt(ERR_METHOD_NOT_FOUND), JInt(99), JInt(0), JStr(<<"E">>)},
                m \in {Absent, Boom, JStr(<<>>)},
                r \in {Absent, JStr(<<"h", "i">>), JNull} }
FwdMethods == { <<"F", ".", "b">>, default_service \o <<".", "e">> }

InitFwd ==
    /\ pc = "ext_decide"
    /\ rc \in FwdCodes
    /\ resp \in FwdDocs
    /\ call \in {[method |-> m, params |-> "p", req_id |-> <<"t">>] : m \in FwdMethods}
    /\ input = Obj(JStr(<<"t">>), "single", <<Req(Absent, Absent, JStr(<<"e">>), "p", "absent")>>)
    /\ reqs = [shape |-> "single", items |-> Normalize(input).val]
    /\ taskId = JStr(<<"t">>)
    /\ reqFifo = "fresh" /\ respFifo = "fresh" /\ logFile = TRUE /\ shim = TRUE
    /\ dirs = {<<"t">>}
    /\ exc = "none" /\ cleanupExc = "none" /\ exiting = FALSE /\ status = "running"
    /\ idx = 1 /\ resps = <<>>
    /\ shimpc = "exited" /\ shimrc = rc
    /\ reqChan = <<>> /\ respChan = <<>>
    /\ outcome = NoOutcome
    /\ stored = <<>>
    /\ trace = <<>>

NextFwd == RunExtDecide

SpecFwd == InitFwd /\ [][NextFwd]_vars

\* C8: the outcome of _run_ext is decided in a fixed order: a non-zero exit
\* code raises NonZeroExitError whatever the response holds; else the reserved
\* error code raises ServerError naming the method; else any other error raises
\* ServerError(code, msg); else the result field is returned.
C8_ForwarderOrder ==
    pc = "ext_return" =>
      /\ rc # 0 => outcome = Raised("NonZeroExitError", JInt(rc), Absent)
      /\ (rc = 0 /\ resp.error = JInt(ERR_METHOD_NOT_FOUND))
           => outcome = Raised("ServerError", resp.error, NotFoundMsg(call.method))
      /\ (rc = 0 /\ resp.error.t # "absent" /\ resp.error # JInt(ERR_METHOD_NOT_FOUND)
               /\ resp.msg.t # "absent")
           => outcome = Raised("ServerError", resp.error, resp.msg)
      /\ (rc = 0 /\ resp.error.t = "absent" /\ resp.result.t # "absent")
           => outcome = Returned(resp.result)

\* a non-zero exit code took precedence over a well-formed error payload
C8_Witness ==
    /\ pc = "ext_return" /\ rc = 2
    /\ resp.error = JInt(99) /\ resp.msg = Boom
    /\ outcome.exc = "NonZeroExitError"

\* ------------------------------------------------- the normalization alone
MethodStrs == SeqsUpTo({"a", "."}, MaxMethodLen)
IdVals == { Absent, JStr(<<>>), JStr(<<"a">>), JInt(0), JInt(12), JNull }
NormReqs ==
    { Req(j, i, m, "p", x) :
        j \in {Absent, JStr(<<"2", ".", "0">>), JStr(<<"1", ".", "0">>)},
        i \in IdVals,
        m \in {Absent, JInt(1)} \cup {JStr(ms) : ms \in MethodStrs},
        x \in {"absent", "x"} }
NormListItems ==
    { Req(Absent, Absent, JStr(<<"a">>), "p", "absent"),
      Req(JStr(<<"2", ".", "0">>), JInt(12), JStr(<<".", "a", ".">>), "q", "x"),
      Req(Absent, JStr(<<>>), JStr(<<"a", ".", "a">>), "p", "absent"),
      Req(Absent, JStr(<<"a">>), Absent, "p", "absent") }
NormInputs ==
    { Bad("nonobject") }
    \cup { Obj(i, "none", <<>>) : i \in IdVals }
    \cup { Obj(i, "single", <<r>>) : i \in IdVals, r \in NormReqs }
    \cup { Obj(i, "list", l) : i \in {Absent, JStr(<<>>)},
                               l \in SeqsUpTo(NormListItems, MaxBatch) }

InitNorm ==
    /\ pc = "normalize"
    /\ input \in NormInputs
    /\ reqs = [shape |-> "none", items |-> <<>>]
    /\ taskId = Absent
    /\ reqFifo = "absent" /\ respFifo = "absent" /\ logFile = TRUE /\ shim = FALSE
    /\ dirs = {}
    /\ exc = "none" /\ cleanupExc = "none" /\ exiting = FALSE /\ status = "running"
    /\ idx = 1 /\ resps = <<>>
    /\ call = NoCall
    /\ shimpc = "none" /\ shimrc = 0
    /\ reqChan = <<>> /\ respChan = <<>>
    /\ resp = NoDoc /\ rc = 0 /\ outcome = NoOutcome
    /\ stored = <<>>
    /\ trace = <<"get_request">>

NextNorm == StartupNormalize

SpecNorm == InitNorm /\ [][NextNorm]_vars

\* the number of namespace separators in a method name
Seps(m) == Cardinality({i \in 1..Len(m) : m[i] = "."})
\* _startup has returned from the normalization without raising
Normalized == pc = "rm_stale"

\* C9 as claimed: after normalization every method holds exactly one
\* separator, whatever the method received.
C9_ExactlyOneSeparator ==
    Normalized => \A i \in 1..Len(reqs.items) : Seps(reqs.items[i].method.s) = 1

\* C9 as amended: after normalization every method holds at least one
\* separator: a method without one becomes Default.<method>, with exactly
\* one, and a method that holds separators is left as received, however many
\* it holds.
C9_AtLeastOneSeparator ==
    Normalized =>
      \A i \in 1..Len(reqs.items) :
        LET m == input.items[i].method.s
            out == reqs.items[i].method
        IN  /\ out.t = "str"
            /\ Seps(out.s) >= 1
            /\ Seps(m) = 0 => (out.s = default_service \o <<".">> \o m /\ Seps(out.s) = 1)
            /\ Seps(m) >= 1 => out.s = m

\* a batch normalized with one method prefixed and one left with two separators
C9_Witness ==
    /\ Normalized
    /\ \E i \in 1..Len(reqs.items) :
          Seps(input.items[i].method.s) = 0 /\ Seps(reqs.items[i].method.s) = 1
    /\ \E i \in 1..Len(reqs.items) :
          Seps(input.items[i].method.s) = 2 /\ Seps(reqs.items[i].method.s) = 2

\* C10 as claimed: after normalization the id of the envelope and of every
\* request is a non-empty string, whatever id was received.
C10_IdNonEmpty ==
    Normalized =>
      /\ taskId.t = "str" /\ taskId.s # <<>>
      /\ \A i \in 1..Len(reqs.items) :
            reqs.items[i].id.t = "str" /\ reqs.items[i].id.s # <<>>

\* the id after gen_id is a string, empty only when the empty string came in
IdKept(before, after) ==
    /\ after.t = "str"
    /\ after.s = <<>> <=> before = JStr(<<>>)
    /\ before.t = "str" => after = before

\* C10 as amended: after normalization the id of the envelope and of every
\* request is a string; it is non-empty when the id was absent (one is
\* generated) or no string (str() of it), and a string id is kept as
\* received, the empty string included.
C10_IdIsString ==
    Normalized =>
      /\ IdKept(input.id, taskId)
      /\ \A i \in 1..Len(reqs.items) : IdKept(input.items[i].id, reqs.items[i].id)

\* an envelope without id and a request with an integer id were normalized
C10_Witness ==
    /\ Normalized
    /\ input.id = Absent /\ taskId.s # <<>>
    /\ \E i \in 1..Len(reqs.items) :
          input.items[i].id.t = "int" /\ reqs.items[i].id.t = "str"
                                      /\ reqs.items[i].id.s # <<>>

\* ------------------------------------------------------ gen_id called twice
\* the values a container may hold under 'id': strings, integers, null, or
\* nothing
GenIdVals ==
    { Absent, JNull }
    \cup { JStr(cs) : cs \in SeqsUpTo({"a", "0"}, MaxMethodLen) }
    \cup { JInt(k) : k \in (0 - 3)..25 }

\* the container is input; taskId is the value it holds under 'id' now and
\* resps the value it held after each call of gen_id
InitGenId ==
    /\ pc = "gen_id"
    /\ \E v \in GenIdVals : input = Obj(v, "none", <<>>)
    /\ taskId = input.id
    /\ resps = <<>>
    /\ reqs = [shape |-> "none", items |-> <<>>]
    /\ reqFifo = "absent" /\ respFifo = "absent" /\ logFile = TRUE /\ shim = FALSE
    /\ dirs = {}
    /\ exc = "none" /\ cleanupExc = "none" /\ exiting = FALSE /\ status = "running"
    /\ idx = 1
    /\ call = NoCall
    /\ shimpc = "none" /\ shimrc = 0
    /\ reqChan = <<>> /\ respChan = <<>>
    /\ resp = NoDoc /\ rc = 0 /\ outcome = NoOutcome
    /\ stored = <<>>
    /\ trace = <<>>

\* line 63, once more on the same container: each call draws its own uuid
GenIdCall ==
    /\ pc = "gen_id"
    /\ Len(resps) < 2
    /\ taskId' = gen_id(taskId, Uuid(Len(resps)))
    /\ resps' = Append(resps, taskId')
    /\ UNCHANGED <<pc, input, reqs, fsVars, endVars, idx, extVars, stored, trace>>

NextGenId == GenIdCall

SpecGenId == InitGenId /\ [][NextGenId]_vars

\* C11 as claimed: on a container that holds an id, two calls of gen_id give
\* the same value, and that value is the one the container held before, for
\* a string id and for an id that is no string.
C11_NeverMutates ==
    (input.id.t # "absent" /\ Len(resps) = 2) =>
        /\ resps[1] = resps[2]
        /\ resps[1] = input.id

\* C11 as amended: two calls of gen_id give the same value; that value is
\* the id as received when it is a string, and str() of it when it is not:
\* the first call replaces an id that is no string, the second changes nothing.
C11_Idempotent ==
    (input.id.t # "absent" /\ Len(resps) = 2) =>
        /\ resps[1] = resps[2]
        /\ resps[1] = JStr(Str(input.id))
        /\ input.id.t = "str" => resps[1] = input.id
        /\ input.id.t # "str" => resps[1] # input.id

\* gen_id ran twice on a container that held the integer 12
C11_Witness ==
    /\ input.id = JInt(12) /\ Len(resps) = 2
    /\ resps[2] = JStr(<<"1", "2">>)

\* the fields normalization is not concerned with, and the version and the
\* method, are as the claim says
FrameButId(before, after) ==
    /\ after.params = before.params
    /\ after.extra = before.extra
    /\ after.jsonrpc = IF before.jsonrpc.t = "absent"
                       THEN JStr(<<"2", ".", "0">>) ELSE before.jsonrpc
    /\ after.method = IF Seps(before.method.s) = 0
                      THEN JStr(default_service \o <<".">> \o before.method.s)
                      ELSE before.method

\* C12 as claimed: normalizing a request sets the version when absent,
\* generates an id when absent and prefixes a method without separator; params,
\* any extra key, a version, an id and a qualified method that are present
\* are left as received.
C12_OnlyThreeChanges ==
    Normalized =>
      \A i \in 1..Len(reqs.items) :
        /\ FrameButId(input.items[i], reqs.items[i])
        /\ input.items[i].id.t = "absent" => reqs.items[i].id = JStr(Uuid(i))
        /\ input.items[i].id.t # "absent" => reqs.items[i].id = input.items[i].id

\* C12 as amended: as claimed, except that an id that is present is left as
\* received only when it is a string; an id that is no string is replaced by
\* str() of it.
C12_FrameWithIdCoerced ==
    Normalized =>
      \A i \in 1..Len(reqs.items) :
        /\ FrameButId(input.items[i], reqs.items[i])
        /\ input.items[i].id.t = "absent" => reqs.items[i].id = JStr(Uuid(i))
        /\ input.items[i].id.t = "str" => reqs.items[i].id = input.items[i].id
        /\ input.items[i].id.t \notin {"absent", "str"}
             => reqs.items[i].id = JStr(Str(input.items[i].id))

\* a request with version 1.0, a string id, a qualified method and an extra
\* key went through the normalization
C12_Witness ==
    /\ Normalized /\ Len(reqs.items) = 1
    /\ input.items[1].jsonrpc = JStr(<<"1", ".", "0">>)
    /\ input.items[1].id = JStr(<<"a">>)
    /\ input.items[1].method = JStr(<<"a", ".", "a">>)
    /\ input.items[1].extra = "x"
    /\ reqs.items[1] = input.items[1]

\* C13: the normalization keeps shape and order: a single object is handed
\* on as a single normalized object, a list of n objects as a list of n
\* objects whose element i is the normalization of element i received.
C13_ShapeAndOrder ==
    Normalized =>
      /\ reqs.shape = input.shape
      /\ Len(reqs.items) = Len(input.items)
      /\ reqs.shape = "single" => Len(reqs.items) = 1
      /\ \A i \in 1..Len(reqs.items) :
            /\ reqs.items[i] = _make_json_rpc(input.items[i], Uuid(i)).val
            /\ reqs.items[i].params = input.items[i].params

\* a list of two different requests went through the normalization
C13_Witness ==
    /\ Normalized /\ reqs.shape = "list" /\ Len(reqs.items) = 2
    /\ input.items[1].params # input.items[2].params
    /\ reqs.items[1].params = "p" /\ reqs.items[2].params = "q"

\* where _run_ext stands once line 109 is behind it
ExtAfterMkdir == {"ext_popen", "ext_write", "ext_read", "ext_wait", "ext_decide",
                  "ext_return"}
ExtPcs == ExtAfterMkdir \cup {"ext_mkdir"}

\* C14: over the nested calls of a run, which share one task id, the scratch
\* directory is made once, by the first call; later calls find it, and no
\* step of a call, returning or raising, removes it.
C14_ScratchDirOnce ==
    /\ [](/\ Count("mkdir") = Cardinality(dirs)
          /\ pc \in ExtAfterMkdir => call.req_id \in dirs)
    /\ [][dirs \subseteq dirs']_vars

\* two nested calls were made and the directory was made once
C14_Witness ==
    /\ Count("popen") = 2 /\ Count("mkdir") = 1
    /\ dirs = {taskId.s}

C16_NoScratchDirLeft ==
    Terminated => dirs = {}

\* C16 as amended: a scratch directory made during the run is on disk from
\* then on, through the cleanup and after the run has terminated with either
\* status: no line of run removes it.
C16_ScratchDirStays ==
    InTrace("mkdir") => (dirs # {} /\ call.req_id \in dirs)

\* a run ended with status 0 and its scratch directory is on disk
C16_Witness ==
    /\ Terminated /\ status = "0"
    /\ InTrace("rm_log") /\ dirs = {taskId.s}

\* the handshake events of the trace, in the order they happened
HandshakeEvents == <<"popen", "write_req", "read_resp", "wait">>
Handshake == SelectSeq(trace, LAMBDA e : e \in {"popen", "write_req", "read_resp", "wait"})
\* the places of _run_ext between the launch of the subprocess and its wait
InHandshake == {"ext_write", "ext_read", "ext_wait"}

\* C17: every nested call launches one subprocess, writes the request once,
\* reads the response once and awaits the subprocess, in that order and
\* without retry; the call returns or raises only after the subprocess was
\* awaited, so that outside a handshake every launched subprocess has been
\* awaited and none is alive.
C17_AwaitedBeforeReturn ==
    /\ \A i \in 1..Len(Handshake) : Handshake[i] = HandshakeEvents[((i - 1) % 4) + 1]
    /\ pc \notin InHandshake =>
         /\ Count("popen") = Count("wait")
         /\ shimpc \in {"none", "exited"}

\* the Bridge waits for its peer: in the open of REQ_FIFO with no reader at
\* the other end, or in the read of RESP_FIFO with nothing written
Blocked ==
    \/ pc = "ext_write" /\ shimpc # "opened"
    \/ pc = "ext_read" /\ respChan = <<>>
\* the peer the Bridge waits for has exited
BlockedForGood == Blocked /\ shimpc = "exited"

\* C18: the handshake has no timeout. While the subprocess has not opened
\* REQ_FIFO, or has written nothing to RESP_FIFO, the Bridge stays where it
\* is; once the subprocess has exited in that situation nothing happens any
\* more. In the handshake's write and read the subprocess of the call has not
\* been awaited, no response has been persisted and no cleanup step has run.
C18_BlocksForever ==
    /\ [](pc \in {"ext_write", "ext_read"} =>
            /\ Count("wait") < Count("popen")
            /\ ~InTrace("dispatch_return") /\ ~InTrace("put_response")
            /\ ~InTrace("del_shim") /\ ~InTrace("rm_req")
            /\ status = "running")
    /\ [][Blocked => pc' = pc /\ rc' = rc /\ status' = status]_vars
    /\ [][~BlockedForGood]_vars

\* the subprocess read the request and exited without writing a response: the
\* Bridge is in its read, with the endpoints and the shim still in place
C18_Witness ==
    /\ pc = "ext_read" /\ shimpc = "exited" /\ respChan = <<>>
    /\ InTrace("write_req") /\ ~InTrace("read_resp")
    /\ reqFifo = "fresh" /\ respFifo = "fresh" /\ shim

\* the invocation is in the dispatcher or in a nested call
Dispatching == ExtPcs \cup {"dispatch", "ext_return"}

\* C19: while the dispatcher runs, REQ_FIFO and RESP_FIFO exist and are the
\* ones this run made, each made once on a path from which whatever an earlier
\* run had left was removed; the shim is in place and the task id is recorded
\* on the store, all before the first subprocess is launched.
C19_FreshEndpoints ==
    /\ pc \in Dispatching =>
         /\ reqFifo = "fresh" /\ respFifo = "fresh"
         /\ Count("mkfifo_req") = 1 /\ Count("mkfifo_resp") = 1
         /\ shim
         /\ taskId.t = "str" /\ InTrace("set_task_id")
    /\ pc = "mkfifo_req" => reqFifo = "absent" /\ respFifo = "absent"
    /\ pc = "mkfifo_resp" => respFifo = "absent"
    /\ After("mkfifo_req", "popen") /\ After("mkfifo_resp", "popen")
    /\ After("copy_shim", "popen") /\ After("set_task_id", "popen")

\* a nested call is under way in a run that found both paths taken by an
\* earlier run
C19_Witness ==
    /\ pc = "ext_write" /\ InTrace("popen")
    /\ InTrace("rm_stale_req") /\ InTrace("rm_stale_resp")
    /\ reqFifo = "fresh" /\ respFifo = "fresh" /\ shim

\* ------------------------------------------- runs with a cooperative subprocess
\* the documents a cooperative subprocess writes: JSON objects
CoopDocs == {d \in ShimDocs : d.valid}

\* a cooperative subprocess writes one JSON document to RESP_FIFO and closes it
ShimWriteRespCoop ==
    /\ shimpc = "got_req"
    /\ pc = "ext_read"
    /\ \E d \in CoopDocs : respChan' = Append(respChan, d)
    /\ shimpc' = "wrote"
    /\ UNCHANGED <<pc, input, reqs, taskId, fsVars, endVars, dispVars, call, shimrc,
                   reqChan, resp, rc, outcome, stored, trace>>

\* a cooperative subprocess exits once it has written its response, with any
\* code
ShimExitCoop ==
    /\ shimpc = "wrote"
    /\ shimpc' = "exited"
    /\ \E c \in ExitCodes : shimrc' = c
    /\ UNCHANGED <<pc, input, reqs, taskId, fsVars, endVars, dispVars, call,
                   reqChan, respChan, resp, rc, outcome, stored, trace>>

\* the steps of the Bridge process: run, the dispatcher it calls and _run_ext
BridgeStep ==
    \/ StartupGetRequest
    \/ StartupNormalize
    \/ StartupRemoveStale
    \/ StartupMkfifoReq
    \/ StartupMkfifoResp
    \/ StartupCopyShim
    \/ DispatchLocal
    \/ DispatchCall
    \/ DispatchHandle
    \/ DispatchReturn
    \/ RunExtMkdir
    \/ RunExtPopen
    \/ RunExtWrite
    \/ RunExtRead
    \/ RunExtWait
    \/ RunExtDecide
    \/ ShutdownPutResponse
    \/ ShutdownPutFile
    \/ HandleException
    \/ CleanupDelShim
    \/ CleanupRemoveReq
    \/ CleanupRemoveResp
    \/ CleanupRemoveLog
    \/ Exit

\* the steps of a cooperative subprocess
ShimStepCoop ==
    \/ ShimOpenReq
    \/ ShimReadReq
    \/ ShimWriteRespCoop
    \/ ShimExitCoop

NextCoop == BridgeStep \/ ShimStepCoop

\* both processes are scheduled fairly: neither stays ready for ever without
\* taking a step
SpecLive == Init /\ [][NextCoop]_vars /\ WF_vars(BridgeStep) /\ WF_vars(ShimStepCoop)

\* C20: with cooperative subprocesses and fair scheduling every run ends, with
\* status 0 or 1, after its finally block was entered; the Bridge and a
\* subprocess never wait for each other for good.
C20_EventuallyTerminates ==
    <>(/\ Terminated
       /\ status \in {"0", "1"}
       /\ InTrace("del_shim")
       /\ Count("wait") = Count("popen"))

\* a run of two nested calls ended with status 0, both subprocesses awaited
C20_Witness ==
    /\ Terminated /\ status = "0"
    /\ Count("popen") = 2 /\ Count("wait") = 2
    /\ InTrace("del_shim") /\ InTrace("rm_log")

====
